---------------------------- MODULE Spec2Model ----------------------------
(***************************************************************************)
(* Portfolio-quote retrieval pipeline of lib/ai/tools/get-stock-portfolio.ts *)
(*                                                                         *)
(* Strings are sequences of ASCII character codes, so that sorting,        *)
(* joining and encoding are computed the way the code computes them.       *)
(* Money amounts are integers: provider values in thousandths, rounded     *)
(* values in hundredths.  Exchange rates are integers in 1/10000.          *)
(*                                                                         *)
(* Every action is one run-to-completion step of the JavaScript event      *)
(* loop: the code between two awaits, started by the settlement of the     *)
(* promise it awaited.                                                     *)
(***************************************************************************)
EXTENDS Integers, Sequences, FiniteSets, TLC

(***************************************************************************)
(* Bounds of the model                                                     *)
(***************************************************************************)
\* longest ticker list handed to execute
MaxTickers == 2
\* longest ticker list handed to fetchMultipleTickersData on its own
MaxBatchTickers == 6
\* longest ticker list handed to generateCacheKey on its own
MaxKeyTickers == 3
\* number of provider prices, one 1/100000 apart, handed to fetchExchangeRate
MaxFxPrices == 30
\* longest quote list handed to calculatePortfolioStats on its own
MaxQuotes == 3
\* longest ticker handed to normalizeTicker on its own
MaxTickerLen == 8
\* calls of execute, one after the other, against one cache backend
MaxCalls == 3
\* times the clock of the cache backend advances, half an expiry each
MaxTicks == 3

(***************************************************************************)
(* Program constants                                                       *)
(***************************************************************************)
maxRetries == 2
timeout == 20000
batchSize == 5
cacheTtlSeconds == 300
\* 5.20, in 1/10000
FallbackRate == 52000

(***************************************************************************)
(* JavaScript values                                                       *)
(***************************************************************************)
Null == [kind |-> "null"]
Undefined == [kind |-> "undefined"]
JsArray(items) == [kind |-> "array", items |-> items]
\* an object with neither a data nor a length property, e.g. {}
JsObject == [kind |-> "object"]

\* v.length === 0 (undefined === 0 is false)
LengthIsZero(v) == v.kind = "array" /\ Len(v.items) = 0
\* v.length > 0 (undefined > 0 is false)
LengthPositive(v) == v.kind = "array" /\ Len(v.items) > 0

(***************************************************************************)
(* Strings                                                                 *)
(***************************************************************************)
\* "AAPL"
AAPL == <<65, 65, 80, 76>>
\* "MSFT"
MSFT == <<77, 83, 70, 84>>
\* "VALE3"
VALE3 == <<86, 65, 76, 69, 51>>
\* " vale3" as a caller may type it
RawVale3 == <<32, 118, 97, 108, 101, 51>>
\* ".SA"
DotSA == <<46, 83, 65>>

IsSpace(c) == c \in {9, 10, 11, 12, 13, 32}
IsUpper(c) == c \in 65..90
IsLower(c) == c \in 97..122
IsDigit(c) == c \in 48..57

RECURSIVE TrimStart(_)
TrimStart(s) ==
  IF s # <<>> /\ IsSpace(Head(s)) THEN TrimStart(Tail(s)) ELSE s

RECURSIVE TrimEnd(_)
TrimEnd(s) ==
  IF s # <<>> /\ IsSpace(s[Len(s)]) THEN TrimEnd(SubSeq(s, 1, Len(s) - 1)) ELSE s

\* String.prototype.trim
Trim(s) == TrimEnd(TrimStart(s))

\* String.prototype.toUpperCase, on ASCII
ToUpperCase(s) == [k \in 1..Len(s) |-> IF IsLower(s[k]) THEN s[k] - 32 ELSE s[k]]

\* a < b in the order of Array.prototype.sort without a comparator:
\* code unit by code unit, a proper prefix first
RECURSIVE StrLess(_, _)
StrLess(a, b) ==
  IF b = <<>> THEN FALSE
  ELSE IF a = <<>> THEN TRUE
  ELSE IF Head(a) # Head(b) THEN Head(a) < Head(b)
  ELSE StrLess(Tail(a), Tail(b))

\* s inserted into the sorted list l, after the elements equal to it
RECURSIVE Insert(_, _)
Insert(s, l) ==
  IF l = <<>> THEN <<s>>
  ELSE IF StrLess(s, Head(l)) THEN <<s>> \o l
  ELSE <<Head(l)>> \o Insert(s, Tail(l))

\* [...l].sort()
RECURSIVE Sort(_)
Sort(l) == IF l = <<>> THEN <<>> ELSE Insert(l[Len(l)], Sort(SubSeq(l, 1, Len(l) - 1)))

\* l.join(',')
RECURSIVE Join(_)
Join(l) ==
  IF l = <<>> THEN <<>>
  ELSE IF Len(l) = 1 THEN Head(l)
  ELSE Head(l) \o <<44>> \o Join(Tail(l))

\* the character of a base64 digit
Base64Char(d) ==
  IF d < 26 THEN 65 + d
  ELSE IF d < 52 THEN 97 + (d - 26)
  ELSE IF d < 62 THEN 48 + (d - 52)
  ELSE IF d = 62 THEN 43 ELSE 47

\* Buffer.from(s).toString('base64'), s made of ASCII characters
RECURSIVE Base64(_)
Base64(b) ==
  IF b = <<>> THEN <<>>
  ELSE IF Len(b) = 1 THEN
    << Base64Char(b[1] \div 4), Base64Char((b[1] % 4) * 16), 61, 61 >>
  ELSE IF Len(b) = 2 THEN
    << Base64Char(b[1] \div 4), Base64Char((b[1] % 4) * 16 + b[2] \div 16),
       Base64Char((b[2] % 16) * 4), 61 >>
  ELSE
    << Base64Char(b[1] \div 4), Base64Char((b[1] % 4) * 16 + b[2] \div 16),
       Base64Char((b[2] % 16) * 4 + b[3] \div 64), Base64Char(b[3] % 64) >>
    \o Base64(SubSeq(b, 4, Len(b)))

(***************************************************************************)
(* normalizeTicker                                                         *)
(***************************************************************************)
IsAlnum(c) == IsUpper(c) \/ IsDigit(c)

\* /^[A-Z0-9]{4}$/
MatchesFourAlnum(t) == Len(t) = 4 /\ \A k \in 1..4 : IsAlnum(t[k])

\* /^[A-Z0-9]{4}\d{1,2}$/
MatchesBrazilian(t) ==
  /\ Len(t) \in {5, 6}
  /\ \A k \in 1..4 : IsAlnum(t[k])
  /\ \A k \in 5..Len(t) : IsDigit(t[k])

\* ticker.includes('.')
IncludesDot(t) == \E k \in 1..Len(t) : t[k] = 46

\* a pattern without its end anchor and without the test for a dot
normalizeTicker_Unanchored(ticker) ==
  IF MatchesFourAlnum(ticker) THEN ticker
  ELSE IF Len(ticker) >= 5 /\ (\A k \in 1..4 : IsAlnum(ticker[k])) /\ IsDigit(ticker[5])
  THEN ticker \o DotSA
  ELSE ticker

\* lines 79-92
normalizeTicker(ticker) ==
  IF MatchesFourAlnum(ticker) THEN ticker
  ELSE IF MatchesBrazilian(ticker) /\ ~IncludesDot(ticker) THEN ticker \o DotSA
  ELSE ticker

(***************************************************************************)
(* generateCacheKey                                                        *)
(***************************************************************************)
generateCacheKey(tickers) ==
  [prefix |-> "portfolio:quotes:", b64 |-> Base64(Join(Sort(tickers)))]

\* execute's normalisation of its input: trim and upper-case each ticker
NormalizeInput(tickers) == [k \in 1..Len(tickers) |-> ToUpperCase(Trim(tickers[k]))]


(***************************************************************************)
(* The quote provider and the quote fetchTickerData builds                 *)
(***************************************************************************)
Num(n) == [kind |-> "number", n |-> n]
NotAvailable == [kind |-> "string", s |-> "Not Available"]
\* typeof v === 'number'
IsNumber(v) == v.kind = "number"

\* The provider's StockData for a symbol, amounts in thousandths; a field the
\* provider leaves out is Null.  VALE3.SA comes without price and market cap.
ProviderQuote(symbol) ==
  IF symbol = AAPL THEN
    [symbol |-> symbol, price |-> Num(150254), changesPercentage |-> Num(1235),
     volume |-> Num(1000400), marketCap |-> Num(2500600)]
  ELSE IF symbol = VALE3 \o DotSA THEN
    [symbol |-> symbol, price |-> Null, changesPercentage |-> Num(-2345),
     volume |-> Num(300500), marketCap |-> Null]
  ELSE
    [symbol |-> symbol, price |-> Num(30125), changesPercentage |-> Null,
     volume |-> Null, marketCap |-> Num(900499)]

\* Math.round(value * 100) / 100, from thousandths to hundredths
roundFinancial(v) == (v + 5) \div 10
\* Math.round(value), from thousandths to units
MathRound(v) == (v + 500) \div 1000

\* a quote named after the symbol the provider echoes
BuildQuote_EchoesProvider(ticker, stockInfo) ==
  [ticker |-> stockInfo.symbol,
   price |-> IF stockInfo.price = Null THEN NotAvailable
             ELSE Num(roundFinancial(stockInfo.price.n)),
   changePercentage |-> IF stockInfo.changesPercentage = Null THEN NotAvailable
                        ELSE Num(roundFinancial(stockInfo.changesPercentage.n)),
   volume |-> IF stockInfo.volume = Null THEN NotAvailable
              ELSE Num(MathRound(stockInfo.volume.n)),
   marketCap |-> IF stockInfo.marketCap = Null THEN NotAvailable
                 ELSE Num(MathRound(stockInfo.marketCap.n))]

\* the NormalizedStockData of lines 138-161 (the fields the statistics read)
BuildQuote(ticker, stockInfo) ==
  [ticker |-> ticker,
   price |-> IF stockInfo.price = Null THEN NotAvailable
             ELSE Num(roundFinancial(stockInfo.price.n)),
   changePercentage |-> IF stockInfo.changesPercentage = Null THEN NotAvailable
                        ELSE Num(roundFinancial(stockInfo.changesPercentage.n)),
   volume |-> IF stockInfo.volume = Null THEN NotAvailable
              ELSE Num(MathRound(stockInfo.volume.n)),
   marketCap |-> IF stockInfo.marketCap = Null THEN NotAvailable
                 ELSE Num(MathRound(stockInfo.marketCap.n))]

\* the symbols the provider may put in its answer to a request for symbol:
\* the symbol it was asked for, or its own name for it
ProviderEchoes(symbol) == {symbol, MSFT}
Echoing(stockInfo, echo) == [stockInfo EXCEPT !.symbol = echo]

\* what one call of fetchTickerData returns when the provider answers with data
QuoteOf(ticker) == BuildQuote(ticker, ProviderQuote(normalizeTicker(ticker)))

(***************************************************************************)
(* The portfolio statistics                                                *)
(***************************************************************************)
\* a filter that keeps a missing value as 0
RECURSIVE ValidValues_MissingAsZero(_, _)
ValidValues_MissingAsZero(data, field) ==
  IF data = <<>> THEN <<>>
  ELSE <<(IF IsNumber(Head(data)[field]) THEN Head(data)[field].n ELSE 0)>>
       \o ValidValues_MissingAsZero(Tail(data), field)

\* data.filter(s => typeof s[field] === 'number').map(s => s[field])
RECURSIVE ValidValues(_, _)
ValidValues(data, field) ==
  IF data = <<>> THEN <<>>
  ELSE (IF IsNumber(Head(data)[field]) THEN <<Head(data)[field].n>> ELSE <<>>)
       \o ValidValues(Tail(data), field)

\* values.reduce((sum, v) => sum + v, 0)
RECURSIVE SumOf(_)
SumOf(values) ==
  IF values = <<>> THEN 0
  ELSE SumOf(SubSeq(values, 1, Len(values) - 1)) + values[Len(values)]

\* Math.round(a / b) for b > 0: the nearest integer, a half going up
RoundRatio(a, b) == (2 * a + b) \div (2 * b)

\* a comparison that also replaces the best on a tie
ChangeGreater_OrEqual(current, best) ==
  /\ IsNumber(current.changePercentage)
  /\ (~IsNumber(best.changePercentage) \/ current.changePercentage.n >= best.changePercentage.n)

\* currentChange > bestChange, a change that is no number counting as -Infinity
ChangeGreater(current, best) ==
  /\ IsNumber(current.changePercentage)
  /\ (~IsNumber(best.changePercentage) \/ current.changePercentage.n > best.changePercentage.n)

\* currentChange < worstChange, a change that is no number counting as Infinity
ChangeLess(current, worst) ==
  /\ IsNumber(current.changePercentage)
  /\ (~IsNumber(worst.changePercentage) \/ current.changePercentage.n < worst.changePercentage.n)

\* data.reduce((best, current) => ...) without initial value, once the
\* accumulator is best and rest is still to visit
RECURSIVE ReduceBest(_, _)
ReduceBest(best, rest) ==
  IF rest = <<>> THEN best
  ELSE ReduceBest(IF ChangeGreater(Head(rest), best) THEN Head(rest) ELSE best, Tail(rest))

RECURSIVE ReduceWorst(_, _)
ReduceWorst(worst, rest) ==
  IF rest = <<>> THEN worst
  ELSE ReduceWorst(IF ChangeLess(Head(rest), worst) THEN Head(rest) ELSE worst, Tail(rest))

\* lines 431-452 (and, word for word, lines 284-306): the statistics of a
\* quote list.  Prices and changes are in hundredths, volumes and market
\* caps in units, so a sum is handed to the rounding in its input unit.
PortfolioMetrics(data) ==
  LET validPrices == ValidValues(data, "price")
      validChanges == ValidValues(data, "changePercentage")
      validVolumes == ValidValues(data, "volume")
      validMarketCaps == ValidValues(data, "marketCap")
  IN [totalValue |-> IF Len(validPrices) > 0
                     THEN Num(roundFinancial(SumOf(validPrices) * 10))
                     ELSE NotAvailable,
      averageChange |-> IF Len(validChanges) > 0
                        THEN Num(RoundRatio(SumOf(validChanges), Len(validChanges)))
                        ELSE NotAvailable,
      totalVolume |-> IF Len(validVolumes) > 0
                      THEN Num(MathRound(SumOf(validVolumes) * 1000))
                      ELSE NotAvailable,
      totalMarketCap |-> IF Len(validMarketCaps) > 0
                         THEN Num(MathRound(SumOf(validMarketCaps) * 1000))
                         ELSE NotAvailable,
      bestPerformer |-> IF Len(validChanges) > 0
                        THEN ReduceBest(Head(data), Tail(data))
                        ELSE Null,
      worstPerformer |-> IF Len(validChanges) > 0
                         THEN ReduceWorst(Head(data), Tail(data))
                         ELSE Null]

\* lines 272-316
calculatePortfolioStats(data) ==
  IF Len(data) = 0
  THEN [totalValue |-> NotAvailable, averageChange |-> NotAvailable,
        totalVolume |-> NotAvailable, totalMarketCap |-> NotAvailable,
        bestPerformer |-> Null, worstPerformer |-> Null]
  ELSE PortfolioMetrics(data)

(***************************************************************************)
(* The exchange-rate provider and fetchExchangeRate                        *)
(***************************************************************************)
\* What the provider can answer to the exchange-rate call: fetch rejects, or
\* a response with a status and a body.  A body is a text that is not JSON,
\* or the JavaScript value its JSON stands for; prices are in 1/100000.
FxRejects == [kind |-> "rejects"]
FxResponse(status, body) == [kind |-> "response", status |-> status, body |-> body]
Unparsable == [kind |-> "unparsable"]
\* a body of no bytes
NoBody == [kind |-> "nobody"]
\* response.json() throws
JsonThrows(body) == body = Unparsable \/ body = NoBody
\* an element of the provider's array, with the value of its price property
FxQuote(price) == [kind |-> "object", price |-> price]
FxBody(price) == JsArray(<<FxQuote(price)>>)

\* the provider supplied a rate: a response that is ok, whose body is an
\* array whose first element has a number other than 0 for price
SuppliesRate(resp) ==
  /\ resp.kind = "response"
  /\ resp.status \in 200..299
  /\ resp.body.kind = "array"
  /\ Len(resp.body.items) > 0
  /\ "price" \in DOMAIN resp.body.items[1]
  /\ resp.body.items[1].price.kind = "number"
  /\ resp.body.items[1].price.n # 0

\* the answers execute meets
FxResponses ==
  { FxResponse(200, FxBody(Num(531274))),
    FxResponse(500, Null),
    FxRejects,
    FxResponse(200, JsArray(<<>>)),
    FxResponse(200, FxBody(Undefined)) }

\* response.ok
ResponseOk(status) == status \in 200..299

\* !v
JsFalsy(v) ==
  \/ v.kind \in {"null", "undefined"}
  \/ v.kind = "number" /\ v.n = 0
  \/ v.kind = "string" /\ v.s = ""

\* data[0]?.price
FirstPrice(data) ==
  IF data.kind = "array" /\ Len(data.items) > 0 /\ "price" \in DOMAIN data.items[1]
  THEN data.items[1].price
  ELSE Undefined

\* parseFloat(rate.toFixed(4)), from 1/100000 to 1/10000
ToFixed4(p) == (p + 5) \div 10

\* the promise of an async function whose body threw
Rejected == [kind |-> "rejected"]

\* fetchExchangeRate without its try/catch
fetchExchangeRate_WithoutCatch(resp) ==
  IF resp.kind = "rejects" THEN Rejected
  ELSE IF ~ResponseOk(resp.status) THEN Rejected
  ELSE IF JsonThrows(resp.body) THEN Rejected
  ELSE IF JsFalsy(resp.body) \/ LengthIsZero(resp.body) THEN Num(FallbackRate)
  ELSE LET price == FirstPrice(resp.body)
           rate == IF JsFalsy(price) THEN Num(FallbackRate * 10) ELSE price
       IN IF IsNumber(rate) THEN Num(ToFixed4(rate.n)) ELSE Rejected

\* lines 197-230: what fetchExchangeRate returns for a provider answer.  The
\* catch of line 226 meets the rejection of fetch, the error thrown for a
\* status that is not ok, the error of response.json() on a body that is not
\* JSON, and the TypeError of toFixed on a price that is not a number.
fetchExchangeRate(resp) ==
  IF resp.kind = "rejects" THEN Num(FallbackRate)
  ELSE IF ~ResponseOk(resp.status) THEN Num(FallbackRate)
  ELSE IF JsonThrows(resp.body) THEN Num(FallbackRate)
  ELSE IF JsFalsy(resp.body) \/ LengthIsZero(resp.body) THEN Num(FallbackRate)
  ELSE LET price == FirstPrice(resp.body)
           rate == IF JsFalsy(price) THEN Num(FallbackRate * 10) ELSE price
       IN IF IsNumber(rate) THEN Num(ToFixed4(rate.n)) ELSE Num(FallbackRate)

(***************************************************************************)
(* The cache backend's payloads                                            *)
(***************************************************************************)
\* JSON.stringify(v)
JsonOf(v) == [kind |-> "json", value |-> v]
\* a stored text that is not JSON
Garbage == [kind |-> "garbage"]
\* the reply of a get that threw, or of a client that could not connect
Throws == [kind |-> "throws"]

\* the payload execute stores, lines 362-367
StoredEntry(tks, data) ==
  JsonOf([kind |-> "entry", timestamp |-> "now", tickers |-> tks, data |-> data])

\* What the backend answered to the read: nothing under the key (absent), an
\* error (threw), the entry an execute stored (entry), or something else
\* (malformed: not JSON, or JSON that is not such an entry).
ReplyKind(reply) ==
  IF reply = Null THEN "absent"
  ELSE IF reply.kind = "throws" THEN "threw"
  ELSE IF reply.kind = "json" /\ reply.value # Null /\ reply.value.kind = "entry" THEN "entry"
  ELSE "malformed"

\* lines 338-348: what the cache read leaves in portfolioData.  A reply that
\* is absent, that threw, that does not parse, or that parses to null (whose
\* .data throws) leaves the empty array portfolioData was initialised with;
\* otherwise portfolioData is parsedCache.data || parsedCache.
ReadCache(reply) ==
  IF reply = Null THEN JsArray(<<>>)
  ELSE IF reply.kind \in {"throws", "garbage"} THEN JsArray(<<>>)
  ELSE IF reply.value = Null THEN JsArray(<<>>)
  ELSE IF reply.value.kind = "entry" THEN reply.value.data
  ELSE reply.value

\* the elements of s at the indices in S, in the order of s
RECURSIVE Pick(_, _)
Pick(s, S) ==
  IF s = <<>> THEN <<>>
  ELSE Pick(SubSeq(s, 1, Len(s) - 1), S)
       \o (IF Len(s) \in S THEN <<s[Len(s)]>> ELSE <<>>)

(***************************************************************************)
(* Inputs                                                                  *)
(***************************************************************************)
NoUser == [kind |-> "undefined"]
User1 == [kind |-> "string", s |-> "u1"]
UserIds == {NoUser, User1}
\* userId && ...
Truthy(u) == u.kind = "string" /\ u.s # ""

\* the tickers a caller hands to execute
RawPool == {AAPL, RawVale3}
ExecInputs == UNION {[1..n -> RawPool] : n \in 1..MaxTickers}

\* the ticker lists handed to fetchMultipleTickersData on its own
BatchPool == <<AAPL, VALE3, MSFT>>
BatchInputs == {[k \in 1..n |-> BatchPool[((k - 1) % Len(BatchPool)) + 1]] : n \in 1..MaxBatchTickers}

\* What the backend may hold under key when execute is called: nothing, the
\* entry an earlier call with the same key stored (the quotes it obtained, at
\* least one, in its own order), or a payload another writer left there.
EntriesFor(key) ==
  UNION { { StoredEntry(NormalizeInput(r),
                        JsArray(Pick([k \in 1..Len(r) |-> QuoteOf(NormalizeInput(r)[k])], S))) :
              S \in (SUBSET (1..Len(r))) \ {{}} } :
          r \in {q \in ExecInputs : generateCacheKey(NormalizeInput(q)) = key} }
ForeignPayloads == {Garbage, JsonOf(Null), JsonOf(JsObject)}
EmptyCache == [k \in {} |-> Null]
CacheContents(key) ==
  {EmptyCache} \cup {[k \in {key} |-> p] : p \in EntriesFor(key) \cup ForeignPayloads}

CacheLookup(c, key) == IF key \in DOMAIN c THEN c[key] ELSE Null

\* f with v under k
Put(f, k, v) == [x \in DOMAIN f \cup {k} |-> IF x = k THEN v ELSE f[x]]
\* f without the keys outside keep
Restrict(f, keep) == [x \in DOMAIN f \cap keep |-> f[x]]

\* the arguments of redis.setEx, lines 362-367
SetExArgs(key, tks, data) ==
  [key |-> key, seconds |-> cacheTtlSeconds, value |-> StoredEntry(tks, data)]

\* a read that sets the expiry of the key anew, as GETEX does
ExpiryAfterGet_Refreshes(e, key, t) ==
  IF key \in DOMAIN e THEN [e EXCEPT ![key] = t + cacheTtlSeconds] ELSE e

\* line 339: redis.get leaves the expiry of the key as it is
ExpiryAfterGet(e, key, t) == e

\* the expiry of the payloads the backend holds when they were stored at t
ExpiryOf(c, t) == [k \in DOMAIN c |-> t + cacheTtlSeconds]
\* the times each payload has been read
NoReads(c) == [k \in DOMAIN c |-> 0]

(***************************************************************************)
(* State                                                                   *)
(***************************************************************************)
VARIABLES
  tickers,            \* execute's argument
  userId,             \* execute's argument
  pc,                 \* where execute is: ready, cacheGet, fx, batch, cacheSet, db, done; idle when not called
  normalizedTickers,  \* line 330
  cacheKey,           \* line 333
  portfolioData,      \* line 334
  exchangeRate,       \* line 335
  doc,                \* what execute returned
  caught,             \* the top-level catch of line 395 ran
  cache,              \* the cache backend: key -> payload
  dbRows,             \* the rows of PortfolioQuery
  expiry,             \* the cache backend: key -> the time its payload expires
  reads,              \* the cache backend: key -> the reads that got its payload
  now,                \* the clock of the cache backend, in seconds
  callNo,             \* the calls of execute so far, this one included
  cacheRead,          \* what the backend answered to the read: none, absent, threw, entry, malformed
  cacheSetResult,     \* how the cache write of this call ended: none, ok, failed
  dbResult,           \* how the insert of this call ended: none, ok, failed
  setExCalls,         \* the cache writes this call issued, with their arguments
  dbCalls,            \* inserts issued by this call
  fxCalls,            \* exchange-rate calls issued by this call
  fxSupplied,         \* the exchange-rate provider supplied a rate to this call
  quoteCalled,        \* a quote-provider call was issued
  batchArg,           \* fetchMultipleTickersData's argument
  i,                  \* its loop variable, line 240
  results,            \* its results, line 238
  fetch,              \* the fetchTickerData call of each ticker of batchArg
  fpc,                \* where fetchMultipleTickersData is: idle, running, returned
  keyIn,              \* two ticker lists handed to generateCacheKey
  keyOut,             \* the two keys it returned
  fxIn,               \* a provider answer handed to fetchExchangeRate
  fxOut,              \* what it returned
  statsIn,            \* a quote list handed to the statistics
  statsOut,           \* the statistics calculatePortfolioStats and the response give
  tickerIn,           \* a ticker handed to normalizeTicker
  tickerOut,          \* what it returned, applied once and twice
  call,               \* a fetchTickerData call on its own
  log                 \* its requests to the provider, the answers, and its waits

execVars == <<tickers, userId, pc, normalizedTickers, cacheKey, portfolioData,
              exchangeRate, doc, caught>>
envVars == <<cache, dbRows>>
obsVars == <<cacheRead, cacheSetResult, dbResult, dbCalls, fxCalls, fxSupplied, setExCalls>>
batchVars == <<batchArg, i, results, fetch, fpc, quoteCalled>>
keyVars == <<keyIn, keyOut>>
fxVars == <<fxIn, fxOut>>
statsVars == <<statsIn, statsOut>>
tickerVars == <<tickerIn, tickerOut>>
callVars == <<call, log>>
fnVars == <<fxVars, statsVars, tickerVars, callVars>>
ttlVars == <<expiry, reads>>
timeVars == <<now, callNo>>
vars == <<execVars, envVars, obsVars, batchVars, keyVars, fnVars, ttlVars, timeVars>>


(***************************************************************************)
(* fetchTickerData                                                         *)
(***************************************************************************)
\* one AbortController shared by every call
ControllerOf_Shared(j) == 0

\* the AbortController of the call for the j-th ticker: one per call, line 104
ControllerOf(j) == j

Pending == [phase |-> "pending"]
\* the call is issued, its controller listened to and its timer armed: lines 101-119
InFlight(j, ticker, retryCount) ==
  [phase |-> "inflight", retryCount |-> retryCount, signal |-> ControllerOf(j),
   timer |-> timeout, symbol |-> normalizeTicker(ticker)]
\* the promise of fetchTickerData(ticker) is resolved with r
Done(r) == [phase |-> "done", result |-> r]

\* the errors the catch of line 168 meets
AbortError == [name |-> "AbortError", status |-> 0]
FetchFailed == [name |-> "TypeError", status |-> 0]
HttpError(status) == [name |-> "Error", status |-> status]

\* a catch that takes no error for a 404
IsNotFound_Never(error) == FALSE

\* error.message.includes('404') || error.message.includes('Not Found'):
\* the message of line 124 is "HTTP <status>: <statusText>"
IsNotFound(error) == error.name = "Error" /\ error.status = 404

\* a retry after every failed attempt up to maxRetries included
AfterTransient_OneMore(error, retryCount) ==
  IF retryCount <= maxRetries
  THEN [phase |-> "backoff", retryCount |-> retryCount, error |-> error,
        delay |-> (2 ^ retryCount) * 1000]
  ELSE Done(Null)

\* lines 183-192: the retry after an error that is not a 404, met at attempt
\* retryCount; error stays in the frame that waits
AfterTransient(error, retryCount) ==
  IF retryCount < maxRetries
  THEN [phase |-> "backoff", retryCount |-> retryCount, error |-> error,
        delay |-> (2 ^ retryCount) * 1000]
  ELSE Done(Null)

\* lines 168-192: the catch block
AfterError(error, retryCount) ==
  IF IsNotFound(error) THEN Done(Null) ELSE AfterTransient(error, retryCount)

HttpErrors == {404, 500}

\* the timer of the attempt fired and aborted the request
Aborted == [kind |-> "aborted"]
\* the error of response.json() on a body that is not JSON
SyntaxError == [name |-> "SyntaxError", status |-> 0]

\* What the provider can answer to a request for symbol: the request is
\* aborted by its timer, fetch rejects, or a response comes with a status and
\* a body.  The body of a response that is ok is not JSON, has no bytes, is
\* null, [], an object that is no array, or an array with the provider's
\* quote.
QuoteAnswers(symbol) ==
  {Aborted, FxRejects}
  \cup {FxResponse(status, Null) : status \in HttpErrors}
  \cup {FxResponse(200, body) :
          body \in {Unparsable, NoBody, Null, JsArray(<<>>), JsObject}
                   \cup {JsArray(<<Echoing(ProviderQuote(symbol), echo)>>) :
                           echo \in ProviderEchoes(symbol)}}

\* lines 99-192: what the attempt retryCount of fetchTickerData(ticker) does
\* with the answer.  An object that is no array has no element 0, and
\* reading its name throws a TypeError.
AfterAnswer(ticker, retryCount, answer) ==
  IF answer.kind = "aborted" THEN AfterError(AbortError, retryCount)
  ELSE IF answer.kind = "rejects" THEN AfterError(FetchFailed, retryCount)
  ELSE IF ~ResponseOk(answer.status) THEN AfterError(HttpError(answer.status), retryCount)
  ELSE IF JsonThrows(answer.body) THEN AfterError(SyntaxError, retryCount)
  ELSE IF JsFalsy(answer.body) \/ LengthIsZero(answer.body) THEN Done(Null)
  ELSE IF answer.body.kind # "array" THEN AfterError(FetchFailed, retryCount)
  ELSE Done(BuildQuote(ticker, answer.body.items[1]))

(***************************************************************************)
(* fetchMultipleTickersData                                                *)
(***************************************************************************)
\* a slice that is not bounded by batchSize
Window_Unbounded(from, n) == {k \in 1..n : from < k}

\* tickers.slice(i, i + batchSize), as the indices (from 1) of its tickers
Window(from, n) == {k \in 1..n : from < k /\ k <= from + batchSize}

\* a filter that gives up the rest of the window at the first null
RECURSIVE NonNull_StopAtNull(_)
NonNull_StopAtNull(rs) ==
  IF rs = <<>> \/ Head(rs) = Null THEN <<>>
  ELSE <<Head(rs)>> \o NonNull_StopAtNull(Tail(rs))

\* lines 248-252: the results of a window that are kept
RECURSIVE NonNull(_)
NonNull(rs) ==
  IF rs = <<>> THEN <<>>
  ELSE (IF Head(rs) # Null THEN <<Head(rs)>> ELSE <<>>) \o NonNull(Tail(rs))

\* the calls of the window and of every window after it are issued at once
StartWindow_Ahead(f, list, from) ==
  [k \in 1..Len(list) |-> IF from < k THEN InFlight(k, list[k], 0) ELSE f[k]]

\* batch.map(ticker => fetchTickerData(ticker)): the calls of the window that
\* starts after index from are issued, the other calls are left as they are
StartWindow(f, list, from) ==
  [k \in 1..Len(list) |->
     IF k \in Window(from, Len(list)) THEN InFlight(k, list[k], 0) ELSE f[k]]

\* the results of the window, the last ticker's first
WindowResults_Reversed(f, from, n) ==
  [k \in 1..Cardinality(Window(from, n)) |->
     f[from + Cardinality(Window(from, n)) + 1 - k].result]

\* the results of the window, in the order of the tickers
WindowResults(f, from, n) ==
  [k \in 1..Cardinality(Window(from, n)) |-> f[from + k].result]

(***************************************************************************)
(* generateAIOptimizedResponse and the documents execute returns           *)
(***************************************************************************)
NoDoc == [kind |-> "none"]

\* lines 414-429
AiData(data) ==
  [k \in 1..Len(data) |->
     [ticker |-> data[k].ticker, price |-> data[k].price,
      changePercentage |-> data[k].changePercentage,
      volume |-> data[k].volume, marketCap |-> data[k].marketCap]]

\* a response that counts the requested tickers as found
generateAIOptimizedResponse_CountsRequested(data, tks, rate) ==
  [kind |-> "document",
   success |-> TRUE,
   requestedTickers |-> tks,
   stocksFound |-> Len(tks),
   stocks |-> AiData(data),
   portfolioMetrics |-> PortfolioMetrics(data),
   exchangeRate |-> [usdToBrl |-> rate, source |-> "Financial Modeling Prep API"]]

\* a response whose success flag is false when no quote was obtained
generateAIOptimizedResponse_FailsWhenEmpty(data, tks, rate) ==
  [kind |-> "document",
   success |-> Len(data) > 0,
   requestedTickers |-> tks,
   stocksFound |-> Len(data),
   stocks |-> AiData(data),
   portfolioMetrics |-> PortfolioMetrics(data),
   exchangeRate |-> [usdToBrl |-> rate, source |-> "Financial Modeling Prep API"]]

\* lines 454-490, for data an array
generateAIOptimizedResponse(data, tks, rate) ==
  [kind |-> "document",
   success |-> TRUE,
   requestedTickers |-> tks,
   stocksFound |-> Len(data),
   stocks |-> AiData(data),
   portfolioMetrics |-> PortfolioMetrics(data),
   exchangeRate |-> [usdToBrl |-> rate, source |-> "Financial Modeling Prep API"]]

FallbackMessage == "Sorry, it was not possible to get your portfolio data at the moment. Please try again in a few moments."

\* no top-level catch: the promise execute returned is rejected
TopLevelCatch_Rethrows(tks) == [kind |-> "rejected"]

\* lines 395-407: the top-level catch
TopLevelCatch(tks) ==
  [kind |-> "document",
   success |-> FALSE,
   error |-> "Internal error processing portfolio",
   tickers |-> tks,
   data |-> <<>>,
   summary |-> Null,
   naturalLanguageSummary |-> FallbackMessage]

(***************************************************************************)
(* execute, from one await to the next                                     *)
(***************************************************************************)
\* lines 390-407: the response is composed and returned; data.map throws when
\* data is not an array, and the top-level catch returns the failure document
Respond(data, rate) ==
  /\ pc' = "done"
  /\ IF data.kind = "array"
     THEN /\ doc' = generateAIOptimizedResponse(data.items, normalizedTickers, rate)
          /\ caught' = FALSE
     ELSE /\ doc' = TopLevelCatch(tickers)
          /\ caught' = TRUE

\* an insert for every request that has quotes, with or without a user
ShouldPersist_WithoutUser(u, data) == LengthPositive(data)

\* line 376
ShouldPersist(u, data) == Truthy(u) /\ LengthPositive(data)

\* lines 376-393: the insert is issued, or the response is composed
Persist(data, rate) ==
  IF ShouldPersist(userId, data)
  THEN pc' = "db" /\ dbCalls' = dbCalls + 1 /\ UNCHANGED <<doc, caught>>
  ELSE Respond(data, rate) /\ dbCalls' = dbCalls

\* a write after every batch, whatever it returned
ShouldStore_Always(data) == TRUE

\* line 359
ShouldStore(data) == LengthPositive(data)

\* lines 359-393, after the batch: setEx is issued, or execute goes on
StoreCache(data, rate) ==
  IF ShouldStore(data)
  THEN /\ pc' = "cacheSet"
       /\ setExCalls' = Append(setExCalls, SetExArgs(cacheKey, normalizedTickers, data))
       /\ UNCHANGED <<doc, caught, dbCalls>>
  ELSE /\ Persist(data, rate)
       /\ setExCalls' = setExCalls

\* the provider is asked whatever the cache gave
NeedsFetch_Always(data) == TRUE

\* line 354
NeedsFetch(data) == LengthIsZero(data)

(***************************************************************************)
(* Initial states                                                          *)
(***************************************************************************)
BatchIdle ==
  /\ batchArg = <<>>
  /\ i = 0
  /\ results = <<>>
  /\ fetch = <<>>
  /\ fpc = "idle"
  /\ quoteCalled = FALSE

ExecIdle ==
  /\ normalizedTickers = <<>>
  /\ cacheKey = Undefined
  /\ portfolioData = Undefined
  /\ exchangeRate = Undefined
  /\ doc = NoDoc
  /\ caught = FALSE
  /\ dbRows = <<>>
  /\ cacheRead = "none"
  /\ cacheSetResult = "none"
  /\ dbResult = "none"
  /\ dbCalls = 0
  /\ fxCalls = 0
  /\ fxSupplied = FALSE
  /\ setExCalls = <<>>
  /\ now = 0
  /\ callNo = 1
  /\ expiry = ExpiryOf(cache, 0)
  /\ reads = NoReads(cache)

KeyIdle ==
  /\ keyIn = <<>>
  /\ keyOut = <<>>

FxIdle ==
  /\ fxIn = Undefined
  /\ fxOut = Undefined

StatsIdle ==
  /\ statsIn = <<>>
  /\ statsOut = Undefined

TickerIdle ==
  /\ tickerIn = <<>>
  /\ tickerOut = Undefined

CallIdle ==
  /\ call = Pending
  /\ log = <<>>

FnIdle == FxIdle /\ StatsIdle /\ TickerIdle /\ CallIdle

\* execute is about to be called
Init ==
  /\ tickers \in ExecInputs
  /\ userId \in UserIds
  /\ pc = "ready"
  /\ cache \in CacheContents(generateCacheKey(NormalizeInput(tickers)))
  /\ ExecIdle
  /\ BatchIdle
  /\ KeyIdle
  /\ FnIdle

\* fetchMultipleTickersData is about to be called on its own
InitBatch ==
  /\ tickers \in BatchInputs
  /\ userId = NoUser
  /\ pc = "idle"
  /\ cache = EmptyCache
  /\ ExecIdle
  /\ BatchIdle
  /\ KeyIdle
  /\ FnIdle

(***************************************************************************)
(* Actions of fetchMultipleTickersData and fetchTickerData                 *)
(***************************************************************************)
\* lines 233-245: the call, up to its first await; the loop body is not
\* entered for an empty list
CallBatch(list) ==
  /\ batchArg' = list
  /\ i' = 0
  /\ results' = <<>>
  /\ fetch' = StartWindow([k \in 1..Len(list) |-> Pending], list, 0)
  /\ fpc' = IF Len(list) = 0 THEN "returned" ELSE "running"
  /\ quoteCalled' = (quoteCalled \/ Len(list) > 0)

\* fetchMultipleTickersData(tickers), called on its own
CallFetchMultiple ==
  /\ pc = "idle"
  /\ fpc = "idle"
  /\ CallBatch(tickers)
  /\ UNCHANGED <<execVars, envVars, obsVars, keyVars, fnVars, ttlVars, timeVars>>

\* the state of call j changes to f; nothing else does
FetchStep(j, f) ==
  /\ fetch' = [fetch EXCEPT ![j] = f]
  /\ UNCHANGED <<batchArg, i, results, fpc, quoteCalled>>
  /\ UNCHANGED <<execVars, envVars, obsVars, keyVars, fnVars, ttlVars, timeVars>>

Calls == DOMAIN fetch
IsInFlight(j) == fetch[j].phase = "inflight"

\* lines 127-166: the provider answers the request for fetch[j].symbol with
\* its quote
RespondData(j) ==
  /\ IsInFlight(j)
  /\ FetchStep(j, AfterAnswer(batchArg[j], fetch[j].retryCount,
                              FxResponse(200, JsArray(<<ProviderQuote(fetch[j].symbol)>>))))

\* lines 127-132: the provider answers with an empty array
RespondEmpty(j) ==
  /\ IsInFlight(j)
  /\ FetchStep(j, AfterAnswer(batchArg[j], fetch[j].retryCount, FxResponse(200, JsArray(<<>>))))

\* lines 123-125, 168-192: the provider answers with a status that is not ok
RespondHttpError(j, status) ==
  /\ IsInFlight(j)
  /\ FetchStep(j, AfterAnswer(batchArg[j], fetch[j].retryCount, FxResponse(status, Null)))

\* lines 168-192: fetch rejects (connection refused, reset, DNS)
NetworkError(j) ==
  /\ IsInFlight(j)
  /\ FetchStep(j, AfterAnswer(batchArg[j], fetch[j].retryCount, FxRejects))

\* lines 105-108, 168-192: the timer of call j fires and aborts its controller;
\* every fetch in flight that listens to that controller rejects with AbortError.
\* (A timer left armed by a fetch that rejected aborts a controller no fetch
\* listens to any more, which changes nothing.)
TimeoutFires(j) ==
  /\ IsInFlight(j)
  /\ fetch' = [k \in Calls |->
                 IF fetch[k].phase = "inflight" /\ fetch[k].signal = fetch[j].signal
                 THEN AfterAnswer(batchArg[k], fetch[k].retryCount, Aborted)
                 ELSE fetch[k]]
  /\ UNCHANGED <<batchArg, i, results, fpc, quoteCalled>>
  /\ UNCHANGED <<execVars, envVars, obsVars, keyVars, fnVars, ttlVars, timeVars>>

\* lines 187-188: the backoff delay is over and the next attempt is issued
BackoffElapsed(j) ==
  /\ fetch[j].phase = "backoff"
  /\ FetchStep(j, InFlight(j, batchArg[j], fetch[j].retryCount + 1))

\* lines 245-257 and, when execute awaits the batch, lines 356-393:
\* Promise.all is resolved, the results of the window are kept, and the next
\* window is started or the results are returned
WindowSettled ==
  /\ fpc = "running"
  /\ \A k \in Window(i, Len(batchArg)) : fetch[k].phase = "done"
  /\ LET n == Len(batchArg)
         kept == results \o NonNull(WindowResults(fetch, i, n))
         next == i + batchSize
     IN /\ results' = kept
        /\ i' = next
        /\ UNCHANGED <<batchArg, quoteCalled>>
        /\ IF next < n
           THEN /\ fetch' = StartWindow(fetch, batchArg, next)
                /\ fpc' = "running"
                /\ UNCHANGED <<execVars, envVars, obsVars, keyVars, fnVars, ttlVars, timeVars>>
           ELSE /\ fetch' = fetch
                /\ fpc' = "returned"
                /\ IF pc = "batch"
                   THEN /\ portfolioData' = JsArray(kept)
                        /\ StoreCache(JsArray(kept), exchangeRate.n)
                        /\ UNCHANGED <<tickers, userId, normalizedTickers, cacheKey, exchangeRate>>
                        /\ UNCHANGED <<envVars, cacheRead, cacheSetResult, dbResult, fxCalls, fxSupplied>>
                        /\ UNCHANGED <<keyVars, fnVars, ttlVars, timeVars>>
                   ELSE UNCHANGED <<execVars, envVars, obsVars, keyVars, fnVars, ttlVars, timeVars>>

FetchNext ==
  \/ \E j \in Calls : RespondData(j)
  \/ \E j \in Calls : RespondEmpty(j)
  \/ \E j \in Calls, status \in HttpErrors : RespondHttpError(j, status)
  \/ \E j \in Calls : NetworkError(j)
  \/ \E j \in Calls : TimeoutFires(j)
  \/ \E j \in Calls : BackoffElapsed(j)
  \/ WindowSettled

(***************************************************************************)
(* Actions of execute                                                      *)
(***************************************************************************)
\* lines 325-339: execute is called and runs up to the cache read
ExecuteCall ==
  /\ pc = "ready"
  /\ normalizedTickers' = NormalizeInput(tickers)
  /\ cacheKey' = generateCacheKey(NormalizeInput(tickers))
  /\ portfolioData' = JsArray(<<>>)
  /\ pc' = "cacheGet"
  /\ UNCHANGED <<tickers, userId, exchangeRate, doc, caught>>
  /\ UNCHANGED <<envVars, obsVars, batchVars, keyVars, fnVars, ttlVars, timeVars>>

\* the replies the backend can give to the read: the payload under the key
\* (none when there is none), or an error
GetReplies == {Throws, CacheLookup(cache, cacheKey)}

\* the exchange-rate call and the batch are issued together, as the
\* arguments of one Promise.all
AwaitExchangeRate_WithBatch(data, list) ==
  /\ fxCalls' = fxCalls + 1
  /\ pc' = "fx"
  /\ IF NeedsFetch(data) THEN CallBatch(list) ELSE UNCHANGED batchVars

\* lines 350-351: the exchange-rate call is issued and execute awaits it;
\* the batch of line 356 is not issued before that await is over
AwaitExchangeRate(data, list) ==
  /\ fxCalls' = fxCalls + 1
  /\ pc' = "fx"
  /\ UNCHANGED batchVars

\* lines 338-351: the cache read ends, and the exchange-rate call is issued
CacheGetReturn(reply) ==
  /\ pc = "cacheGet"
  /\ portfolioData' = ReadCache(reply)
  /\ cacheRead' = ReplyKind(reply)
  /\ AwaitExchangeRate(ReadCache(reply), normalizedTickers)
  /\ expiry' = IF reply = Throws THEN expiry ELSE ExpiryAfterGet(expiry, cacheKey, now)
  /\ reads' = IF reply # Throws /\ cacheKey \in DOMAIN reads
               THEN [reads EXCEPT ![cacheKey] = @ + 1]
               ELSE reads
  /\ UNCHANGED <<tickers, userId, normalizedTickers, cacheKey, exchangeRate, doc, caught>>
  /\ UNCHANGED <<envVars, cacheSetResult, dbResult, dbCalls, fxSupplied, setExCalls>>
  /\ UNCHANGED <<keyVars, fnVars, timeVars>>

\* lines 201-229 and 351-393: the exchange-rate call ends; on a miss the
\* batch is started, otherwise execute goes on to the insert and the response
FxReturn(resp) ==
  /\ pc = "fx"
  /\ exchangeRate' = fetchExchangeRate(resp)
  /\ fxSupplied' = SuppliesRate(resp)
  /\ IF NeedsFetch(portfolioData)
     THEN /\ pc' = "batch"
          /\ CallBatch(normalizedTickers)
          /\ UNCHANGED <<doc, caught, dbCalls>>
     ELSE /\ Persist(portfolioData, fetchExchangeRate(resp).n)
          /\ UNCHANGED batchVars
  /\ UNCHANGED <<tickers, userId, normalizedTickers, cacheKey, portfolioData>>
  /\ UNCHANGED <<envVars, cacheRead, cacheSetResult, dbResult, fxCalls, setExCalls>>
  /\ UNCHANGED <<keyVars, fnVars, ttlVars, timeVars>>

\* no catch around the cache write: the error reaches the top-level catch
OnCacheWriteError_Propagates(data, rate) ==
  /\ pc' = "done"
  /\ doc' = TopLevelCatch(tickers)
  /\ caught' = TRUE
  /\ dbCalls' = dbCalls

\* lines 368-371: what execute does when the cache write threw
OnCacheWriteError(data, rate) == Persist(data, rate)

\* lines 361-393: the cache write ends
CacheSetReturn(ok) ==
  /\ pc = "cacheSet"
  /\ IF ok
     THEN /\ LET written == setExCalls[Len(setExCalls)]
             IN /\ cache' = Put(cache, written.key, written.value)
                /\ expiry' = Put(expiry, written.key, now + written.seconds)
                /\ reads' = Put(reads, written.key, 0)
          /\ cacheSetResult' = "ok"
          /\ Persist(portfolioData, exchangeRate.n)
     ELSE /\ UNCHANGED <<cache, ttlVars>>
          /\ cacheSetResult' = "failed"
          /\ OnCacheWriteError(portfolioData, exchangeRate.n)
  /\ UNCHANGED <<tickers, userId, normalizedTickers, cacheKey, portfolioData, exchangeRate>>
  /\ UNCHANGED <<dbRows, cacheRead, dbResult, fxCalls, fxSupplied, setExCalls>>
  /\ UNCHANGED <<batchVars, keyVars, fnVars, timeVars>>

\* lines 384-386: what execute does when the insert threw
OnInsertError(data, rate) == Respond(data, rate)

\* lines 378-393: the insert ends
DbReturn(ok) ==
  /\ pc = "db"
  /\ IF ok
     THEN /\ dbRows' = Append(dbRows, [tickers |-> normalizedTickers,
                                       data |-> portfolioData, userId |-> userId])
          /\ dbResult' = "ok"
          /\ Respond(portfolioData, exchangeRate.n)
     ELSE /\ dbRows' = dbRows
          /\ dbResult' = "failed"
          /\ OnInsertError(portfolioData, exchangeRate.n)
  /\ UNCHANGED <<tickers, userId, normalizedTickers, cacheKey, portfolioData, exchangeRate>>
  /\ UNCHANGED <<cache, cacheRead, cacheSetResult, dbCalls, fxCalls, fxSupplied, setExCalls>>
  /\ UNCHANGED <<batchVars, keyVars, fnVars, ttlVars, timeVars>>

ExecNext ==
  \/ ExecuteCall
  \/ \E reply \in GetReplies : CacheGetReturn(reply)
  \/ \E resp \in FxResponses : FxReturn(resp)
  \/ \E ok \in BOOLEAN : CacheSetReturn(ok)
  \/ \E ok \in BOOLEAN : DbReturn(ok)

(***************************************************************************)
(* generateCacheKey on its own                                             *)
(***************************************************************************)
KeyPool == {AAPL, MSFT}
KeyInputs == UNION {[1..n -> KeyPool] : n \in 1..MaxKeyTickers}

InitKey ==
  /\ tickers = <<>>
  /\ userId = NoUser
  /\ pc = "idle"
  /\ cache = EmptyCache
  /\ ExecIdle
  /\ BatchIdle
  /\ keyIn \in KeyInputs \X KeyInputs
  /\ keyOut = <<>>
  /\ FnIdle

\* generateCacheKey is applied to both lists
CallGenerateCacheKey ==
  /\ keyOut = <<>>
  /\ keyIn # <<>>
  /\ keyOut' = <<generateCacheKey(keyIn[1]), generateCacheKey(keyIn[2])>>
  /\ UNCHANGED <<keyIn, execVars, envVars, obsVars, batchVars, fnVars, ttlVars, timeVars>>

(***************************************************************************)
(* fetchExchangeRate on its own                                            *)
(***************************************************************************)
\* prices the provider may quote: none (0), and a run of prices around 5.20
\* that crosses several roundings to four decimals
FxPrices == {0} \cup {FallbackRate * 10 - 12 + k : k \in 1..MaxFxPrices}

\* the bodies of a response: no JSON, no bytes, null, [], {}, [null], an element
\* without price, with a null price, with a text for price, with a number
FxBodies ==
  {Unparsable, NoBody, Null, JsArray(<<>>), JsObject, JsArray(<<Null>>),
   FxBody(Undefined), FxBody(Null), FxBody([kind |-> "string", s |-> "5.3127"])}
  \cup {FxBody(Num(p)) : p \in FxPrices}

FxInputs == {FxRejects} \cup {FxResponse(st, b) : st \in {200, 404, 500}, b \in FxBodies}

InitFx ==
  /\ tickers = <<>>
  /\ userId = NoUser
  /\ pc = "idle"
  /\ cache = EmptyCache
  /\ ExecIdle
  /\ BatchIdle
  /\ KeyIdle
  /\ fxIn \in FxInputs
  /\ fxOut = Undefined
  /\ StatsIdle
  /\ TickerIdle
  /\ CallIdle

\* fetchExchangeRate is called and the provider answers fxIn
CallFetchExchangeRate ==
  /\ fxOut = Undefined
  /\ fxIn # Undefined
  /\ fxOut' = fetchExchangeRate(fxIn)
  /\ UNCHANGED <<fxIn, statsVars, tickerVars, callVars, execVars, envVars, obsVars, batchVars, keyVars, ttlVars, timeVars>>

(***************************************************************************)
(* The statistics on their own                                             *)
(***************************************************************************)
\* the values of the fields the statistics read: each is missing or a
\* number, and two quotes may have the same change
StatsFields ==
  [price : {NotAvailable, Num(1010)},
   changePercentage : {NotAvailable, Num(-235), Num(150)},
   volume : {NotAvailable, Num(7)},
   marketCap : {NotAvailable, Num(9)}]

\* the quote at position k of a list, with the fields f
StatsQuote(k, f) ==
  [ticker |-> BatchPool[((k - 1) % Len(BatchPool)) + 1],
   price |-> f.price, changePercentage |-> f.changePercentage,
   volume |-> f.volume, marketCap |-> f.marketCap]

\* the quote lists of length n
QuoteLists(n) == {[k \in 1..n |-> StatsQuote(k, fs[k])] : fs \in [1..n -> StatsFields]}

TickersOf(data) == [k \in 1..Len(data) |-> data[k].ticker]

InitStats ==
  /\ tickers = <<>>
  /\ userId = NoUser
  /\ pc = "idle"
  /\ cache = EmptyCache
  /\ ExecIdle
  /\ BatchIdle
  /\ KeyIdle
  /\ FxIdle
  /\ TickerIdle
  /\ CallIdle
  /\ \E n \in 0..MaxQuotes : statsIn \in QuoteLists(n)
  /\ statsOut = Undefined

\* calculatePortfolioStats and generateAIOptimizedResponse are applied to
\* the quote list
CallCalculatePortfolioStats ==
  /\ statsOut = Undefined
  /\ statsOut' =
       [stats |-> calculatePortfolioStats(statsIn),
        metrics |-> generateAIOptimizedResponse(statsIn, TickersOf(statsIn),
                                                FallbackRate).portfolioMetrics]
  /\ UNCHANGED <<statsIn, fxVars, tickerVars, callVars, execVars, envVars, obsVars, batchVars, keyVars, ttlVars, timeVars>>

(***************************************************************************)
(* normalizeTicker on its own                                              *)
(***************************************************************************)
\* the characters of the tickers: A, S, 3 and the dot; execute hands on
\* tickers that are trimmed and upper-cased
TickerChars == {65, 83, 51, 46}

InitTicker ==
  /\ tickers = <<>>
  /\ userId = NoUser
  /\ pc = "idle"
  /\ cache = EmptyCache
  /\ ExecIdle
  /\ BatchIdle
  /\ KeyIdle
  /\ FxIdle
  /\ StatsIdle
  /\ CallIdle
  /\ \E n \in 1..MaxTickerLen : tickerIn \in [1..n -> TickerChars]
  /\ tickerOut = Undefined

\* normalizeTicker is applied to the ticker, then to its own result
CallNormalizeTicker ==
  /\ tickerOut = Undefined
  /\ tickerIn # <<>>
  /\ tickerOut' = [once |-> normalizeTicker(tickerIn),
                    twice |-> normalizeTicker(normalizeTicker(tickerIn))]
  /\ UNCHANGED <<tickerIn, fxVars, statsVars, callVars, execVars, envVars, obsVars, batchVars, keyVars, ttlVars, timeVars>>

(***************************************************************************)
(* fetchTickerData on its own                                              *)
(***************************************************************************)
\* what the log holds: a request to the provider for a symbol, the answer to
\* it, and a wait of setTimeout
Request(symbol) == [ev |-> "request", symbol |-> symbol]
Answer(answer) == [ev |-> "answer", answer |-> answer]
Wait(delay) == [ev |-> "wait", delay |-> delay]

InitFetch ==
  /\ tickers \in {<<BatchPool[k]>> : k \in 1..Len(BatchPool)}
  /\ userId = NoUser
  /\ pc = "idle"
  /\ cache = EmptyCache
  /\ ExecIdle
  /\ BatchIdle
  /\ KeyIdle
  /\ FnIdle

\* lines 95-119: fetchTickerData(ticker) is called and issues its request
CallFetchTickerData ==
  /\ call = Pending
  /\ call' = InFlight(1, tickers[1], 0)
  /\ log' = <<Request(normalizeTicker(tickers[1]))>>
  /\ UNCHANGED <<fxVars, statsVars, tickerVars, execVars, envVars, obsVars, batchVars, keyVars, ttlVars, timeVars>>

\* lines 121-192: the answer to the request in flight comes; the call
\* returns, or starts the wait before its next attempt
ProviderAnswers ==
  /\ call.phase = "inflight"
  /\ \E answer \in QuoteAnswers(call.symbol) :
       LET next == AfterAnswer(tickers[1], call.retryCount, answer)
       IN /\ call' = next
          /\ log' = log \o <<Answer(answer)>>
                        \o (IF next.phase = "backoff" THEN <<Wait(next.delay)>> ELSE <<>>)
  /\ UNCHANGED <<fxVars, statsVars, tickerVars, execVars, envVars, obsVars, batchVars, keyVars, ttlVars, timeVars>>

\* lines 187-188 and 99-119: the wait is over and the next attempt issues
\* its request
WaitElapsed ==
  /\ call.phase = "backoff"
  /\ call' = InFlight(1, tickers[1], call.retryCount + 1)
  /\ log' = Append(log, Request(normalizeTicker(tickers[1])))
  /\ UNCHANGED <<fxVars, statsVars, tickerVars, execVars, envVars, obsVars, batchVars, keyVars, ttlVars, timeVars>>

(***************************************************************************)
(* execute called again and again, against a backend whose entries expire  *)
(***************************************************************************)
\* tickers the input schema of lines 320-324 accepts: any text of one
\* character or more, a comma included
TickerA == <<65>>
TickerB == <<66>>
TickerAB == <<65, 44, 66>>

\* the requests of the calls: a ticker to trim and upper-case, the tickers
\* "A" and "B", and the one ticker "A,B"
RepeatInputs == {<<RawVale3>>, <<TickerA, TickerB>>, <<TickerAB>>}

\* the step of the backend's clock: half the expiry of an entry
TickSeconds == cacheTtlSeconds \div 2

\* the first call of execute, against an empty backend
InitCache ==
  /\ tickers \in RepeatInputs
  /\ userId = NoUser
  /\ pc = "ready"
  /\ cache = EmptyCache
  /\ ExecIdle
  /\ BatchIdle
  /\ KeyIdle
  /\ FnIdle

\* lines 325-335: execute has returned and is called again; the locals of
\* the call are new, the backend keeps what it holds
ExecuteAgain ==
  /\ pc = "done"
  /\ callNo < MaxCalls
  /\ callNo' = callNo + 1
  /\ tickers' \in RepeatInputs
  /\ pc' = "ready"
  /\ normalizedTickers' = <<>>
  /\ cacheKey' = Undefined
  /\ portfolioData' = Undefined
  /\ exchangeRate' = Undefined
  /\ doc' = NoDoc
  /\ caught' = FALSE
  /\ cacheRead' = "none"
  /\ cacheSetResult' = "none"
  /\ dbResult' = "none"
  /\ dbCalls' = 0
  /\ fxCalls' = 0
  /\ fxSupplied' = FALSE
  /\ setExCalls' = <<>>
  /\ batchArg' = <<>>
  /\ i' = 0
  /\ results' = <<>>
  /\ fetch' = <<>>
  /\ fpc' = "idle"
  /\ quoteCalled' = FALSE
  /\ UNCHANGED <<userId, envVars, ttlVars, now, keyVars, fnVars>>

\* line 367: time passes, and the backend evicts the keys whose expiry,
\* set by setEx, is reached
Tick ==
  /\ now < MaxTicks * TickSeconds
  /\ now' = now + TickSeconds
  /\ LET kept == {k \in DOMAIN cache : expiry[k] > now + TickSeconds}
     IN /\ cache' = Restrict(cache, kept)
        /\ expiry' = Restrict(expiry, kept)
        /\ reads' = Restrict(reads, kept)
  /\ UNCHANGED <<execVars, dbRows, obsVars, batchVars, keyVars, fnVars, callNo>>

(***************************************************************************)
(* Specifications                                                          *)
(***************************************************************************)
Next == ExecNext \/ FetchNext
Spec == Init /\ [][Next]_vars

\* What the event loop and the code's timers guarantee to a call of execute
\* that has begun: a step that can be taken is taken.  The backend and the
\* database answer, every quote call is answered or aborted by its timer
\* (lines 104-108), and a backoff wait ends (line 188).  The exchange-rate
\* call of lines 201-209 has no timer and no AbortController: nothing in the
\* code makes its await end when the provider sends no answer.  Whether
\* execute is called at all is up to its caller.
Fairness ==
  /\ WF_vars(\E reply \in GetReplies : CacheGetReturn(reply))
  /\ WF_vars(\E ok \in BOOLEAN : CacheSetReturn(ok))
  /\ WF_vars(\E ok \in BOOLEAN : DbReturn(ok))
  /\ WF_vars(FetchNext)
SpecLive == Init /\ [][Next]_vars /\ Fairness

NextBatch == CallFetchMultiple \/ FetchNext
SpecBatch == InitBatch /\ [][NextBatch]_vars

NextKey == CallGenerateCacheKey
SpecKey == InitKey /\ [][NextKey]_vars

NextFx == CallFetchExchangeRate
SpecFx == InitFx /\ [][NextFx]_vars

NextStats == CallCalculatePortfolioStats
SpecStats == InitStats /\ [][NextStats]_vars

NextTicker == CallNormalizeTicker
SpecTicker == InitTicker /\ [][NextTicker]_vars

NextCache ==
  \/ ExecuteCall
  \/ \E reply \in GetReplies : CacheGetReturn(reply)
  \/ \E resp \in FxResponses : FxReturn(resp)
  \/ \E ok \in BOOLEAN : CacheSetReturn(ok)
  \/ FetchNext
  \/ ExecuteAgain
  \/ Tick
SpecCache == InitCache /\ [][NextCache]_vars

NextFetch == CallFetchTickerData \/ ProviderAnswers \/ WaitElapsed
SpecFetch == InitFetch /\ [][NextFetch]_vars

(***************************************************************************)
(* Claims about fetchMultipleTickersData, under SpecBatch                  *)
(***************************************************************************)
\* the calls whose window has settled, and those of them that returned a quote
SettledCalls == {j \in Calls : j <= i}
KeptCalls == {j \in SettledCalls : fetch[j].result # Null}

\* C1: the quotes returned are those of the tickers whose fetchTickerData did
\* not return null, one for each and in their order, so there are at most as
\* many as tickers; a call that returns null neither stops the batch (every
\* call has settled when the batch returns) nor removes another call's quote.
C1_BatchKeepsExactlyTheSuccesses ==
  /\ fpc \in {"running", "returned"} =>
       /\ Len(results) <= Len(batchArg)
       /\ Len(results) = Cardinality(KeptCalls)
       /\ \A j \in KeptCalls :
            results[Cardinality({k \in KeptCalls : k <= j})] = fetch[j].result
  /\ fpc = "returned" =>
       /\ SettledCalls = Calls
       /\ \A j \in Calls : fetch[j].phase = "done"

\* a batch of more than one window has returned, with a null before a quote
\* in the first window and a quote in the second
C1_Witness ==
  /\ fpc = "returned"
  /\ Len(batchArg) > batchSize
  /\ fetch[1].result = Null
  /\ fetch[2].result # Null
  /\ fetch[batchSize + 1].result # Null
  /\ Len(results) < Len(batchArg)

\* C5: at most batchSize quote-provider calls are in flight at any instant
C5_AtMostBatchSizeInFlight ==
  Cardinality({j \in Calls : fetch[j].phase = "inflight"}) <= batchSize

\* batchSize calls are in flight while a ticker of the list still waits for
\* its window, or a retry is in flight in the second window
C5_Witness ==
  \/ /\ Cardinality({j \in Calls : fetch[j].phase = "inflight"}) = batchSize
     /\ \E j \in Calls : fetch[j].phase = "pending"
  \/ /\ i = batchSize
     /\ \E j \in Calls : fetch[j].phase = "inflight" /\ fetch[j].retryCount > 0

\* C6: the step in which the timeout of call j fires changes call j alone,
\* which goes on as after any transient failure (it waits for its retry while
\* attempts remain, and returns null after the last); no other call, and
\* nothing of the batch, changes.
C6_TimeoutAbortsOnlyItsCall ==
  [][\A j \in Calls :
       TimeoutFires(j) =>
         /\ fetch'[j] = AfterTransient(AbortError, fetch[j].retryCount)
         /\ fetch[j].retryCount < maxRetries => fetch'[j].phase = "backoff"
         /\ \A k \in Calls \ {j} : fetch'[k] = fetch[k]
         /\ results' = results /\ fpc' = fpc /\ i' = i]_vars

\* a call waits for its retry after a timeout while a sibling of its window
\* is still in flight and another has returned its quote
C6_Witness ==
  \E j, k, l \in Calls :
    /\ fetch[j].phase = "backoff" /\ fetch[j].error = AbortError
    /\ fetch[k].phase = "inflight"
    /\ fetch[l].phase = "done" /\ fetch[l].result # Null

(***************************************************************************)
(* Claims about generateCacheKey, under SpecKey                            *)
(***************************************************************************)
SetOf(l) == {l[k] : k \in 1..Len(l)}

\* C4: two ticker lists with the same set of tickers, whatever their order and
\* their repetitions, get the same cache key.  generateCacheKey sorts but does
\* not remove duplicates: <<AAPL>> and <<AAPL, AAPL>> get different keys.
C4_KeyIgnoresOrderAndDuplicates ==
  keyOut # <<>> =>
    (SetOf(keyIn[1]) = SetOf(keyIn[2]) => keyOut[1] = keyOut[2])

(***************************************************************************)
(* Claims about execute, under Spec                                        *)
(***************************************************************************)
\* the calls of the batch that returned null
FailedCalls == {j \in Calls : fetch[j].phase = "done" /\ fetch[j].result = Null}

\* the success document built from the quotes the batch returned
DocFromProvider ==
  [kind |-> "document",
   success |-> TRUE,
   requestedTickers |-> normalizedTickers,
   stocksFound |-> Len(results),
   stocks |-> AiData(results),
   portfolioMetrics |-> PortfolioMetrics(results),
   exchangeRate |-> [usdToBrl |-> exchangeRate.n, source |-> "Financial Modeling Prep API"]]

\* C2: when the cache read returns the entry stored under the request's key,
\* execute issues no quote-provider call, at any time, and exactly one
\* exchange-rate call.
C2_HitCallsOnlyTheRateProvider ==
  cacheRead = "entry" =>
    /\ ~quoteCalled
    /\ fpc = "idle"
    /\ fxCalls = 1
    /\ pc = "done" => exchangeRate # Undefined

\* execute has returned the quotes of the entry, with a rate
C2_Witness ==
  /\ pc = "done"
  /\ cacheRead = "entry"
  /\ doc.success
  /\ doc.stocksFound > 0
  /\ doc.stocks = AiData(cache[cacheKey].value.data.items)
  /\ fxCalls = 1

\* C3: when the quotes were fetched (the cache gave none), k of the n tickers
\* failed and at least one succeeded, execute returns the success document with n - k quotes and
\* stocksFound = n - k, and the top-level catch does not run.
C3_PartialFailureIsASuccess ==
  (/\ pc = "done"
   /\ fpc = "returned"
   /\ Len(normalizedTickers) - Cardinality(FailedCalls) >= 1) =>
     /\ ~caught
     /\ doc.kind = "document"
     /\ doc.success
     /\ Len(doc.stocks) = Len(normalizedTickers) - Cardinality(FailedCalls)
     /\ doc.stocksFound = Len(normalizedTickers) - Cardinality(FailedCalls)

\* one of two tickers failed and the document holds the other's quote
C3_Witness ==
  /\ pc = "done"
  /\ cacheRead = "absent"
  /\ Len(normalizedTickers) = 2
  /\ Cardinality(FailedCalls) = 1
  /\ doc.success
  /\ doc.stocksFound = 1

\* C7: when the cache read throws or the stored payload is malformed, execute
\* fetches the quotes from the provider and returns the success document
\* built from them.  A payload that parses to an object that is no entry is
\* put in portfolioData as it is: the provider is not asked and the response
\* is the failure document.
C7_ReadFailureIsAMiss ==
  (pc = "done" /\ cacheRead \in {"threw", "malformed"}) =>
     /\ quoteCalled
     /\ fpc = "returned"
     /\ doc = DocFromProvider

\* C8: what execute returns after it fetched the quotes is the success
\* document built from these quotes and the rate, whether the cache write and
\* the insert succeeded, failed or were not attempted.
C8_WriteFailuresDoNotChangeTheDocument ==
  (pc = "done" /\ fpc = "returned") => doc = DocFromProvider

\* the cache read, the cache write and the insert all failed, and execute
\* returned a success document with a quote
C8_Witness ==
  /\ pc = "done"
  /\ cacheRead = "threw"
  /\ cacheSetResult = "failed"
  /\ dbResult = "failed"
  /\ doc.success
  /\ doc.stocksFound >= 1
  /\ cache = EmptyCache
  /\ dbRows = <<>>

\* C9, as claimed: the success flag is false if and only if no quote was
\* obtained for any ticker or the top-level catch ran.
C9_SuccessFalseIffEmptyOrCaught ==
  pc = "done" =>
    (doc.success = FALSE <=> ((fpc = "returned" /\ Len(results) = 0) \/ caught))

\* C9, amended: the success flag is false if and only if the top-level catch
\* ran; a fully empty result leaves it true, as do partial provider failures,
\* cache errors that throw, insert failures and exchange-rate failures.
C9_SuccessFalseIffCaught ==
  pc = "done" =>
    /\ doc.kind = "document"
    /\ doc.success = FALSE <=> caught
    /\ (fpc = "returned" /\ Len(results) = 0) => doc.success

\* every ticker failed, the cache read threw and the rate is the fallback:
\* the document is a success document without quotes
C9_Witness ==
  /\ pc = "done"
  /\ cacheRead = "threw"
  /\ fpc = "returned"
  /\ Len(results) = 0
  /\ Cardinality(FailedCalls) = Len(normalizedTickers)
  /\ exchangeRate.n = FallbackRate
  /\ doc.success
  /\ doc.stocksFound = 0

\* C10: execute returns a document on every path, and after an exception the
\* document is the failure document: success is false, the quote list is
\* empty and the message is the fallback message.
C10_ExecuteNeverThrows ==
  pc = "done" =>
    /\ doc.kind = "document"
    /\ caught =>
         /\ doc.success = FALSE
         /\ doc.data = <<>>
         /\ doc.naturalLanguageSummary = FallbackMessage
         /\ doc.tickers = tickers

\* generateAIOptimizedResponse threw on a cached payload that is no array,
\* and execute returned the failure document
C10_Witness ==
  /\ pc = "done"
  /\ caught
  /\ portfolioData.kind # "array"
  /\ doc.success = FALSE

(***************************************************************************)
(* Claims about fetchExchangeRate, under SpecFx                            *)
(***************************************************************************)
\* C11: whatever the provider answers (fetch rejects, a status that is not
\* ok, a body that is not JSON, null, an empty array, an element without a
\* price or with a price that is not a number), fetchExchangeRate returns a
\* number, and the number is 5.20 whenever the provider supplied no rate.
C11_RateIsANumberAndFallsBack ==
  fxOut # Undefined =>
    /\ IsNumber(fxOut)
    /\ ~SuppliesRate(fxIn) => fxOut = Num(FallbackRate)

\* the body was not JSON and fetchExchangeRate returned 5.20
C11_Witness ==
  /\ fxIn = FxResponse(200, Unparsable)
  /\ fxOut = Num(FallbackRate)

(***************************************************************************)
(* Further claims about execute, under Spec                                *)
(***************************************************************************)
\* C12: the exchange-rate block of the returned document says "fallback"
\* whenever the provider supplied no rate, and names the provider only when
\* the provider supplied the rate.  The block has one source, the provider's
\* name written at line 471, whatever fetchExchangeRate met: after a provider
\* failure the document gives 5.20 as a rate of the provider.
C12_RateProvenanceIsTagged ==
  (pc = "done" /\ ~caught) =>
     /\ ~fxSupplied => doc.exchangeRate.source = "fallback"
     /\ doc.exchangeRate.source \in {"provider", "Financial Modeling Prep API"} => fxSupplied

\* the request obtained at least one quote, from the cache or the provider
QuotesObtained == portfolioData.kind = "array" /\ Len(portfolioData.items) >= 1

Concrete(data, field) == {k \in 1..Len(data) : data[k][field].kind = "number"}

\* the sum of the field over the positions S
RECURSIVE SumAt(_, _, _)
SumAt(data, field, S) ==
  IF S = {} THEN 0
  ELSE LET k == CHOOSE x \in S : TRUE
       IN data[k][field].n + SumAt(data, field, S \ {k})

\* stat is the sum of the field over the quotes that have it, or the sentinel
IsTotal(stat, data, field) ==
  IF Concrete(data, field) = {} THEN stat = NotAvailable
  ELSE stat = Num(SumAt(data, field, Concrete(data, field)))

\* stat is the mean of the field over the quotes that have it, to the nearest
\* hundredth, or the sentinel
IsMean(stat, data, field) ==
  LET S == Concrete(data, field)
      n == Cardinality(S)
      d == stat.n * n - SumAt(data, field, S)
  IN IF S = {} THEN stat = NotAvailable
     ELSE IsNumber(stat) /\ 2 * d <= n /\ -2 * d <= n

\* C14: each statistic is built from exactly the quotes whose field is a
\* number: the totals are their sum, averageChange their mean, and each is
\* "Not Available" when no quote has the field; for the empty list all four
\* are "Not Available" and both performers null; calculatePortfolioStats and
\* the portfolioMetrics of the response are the same.
C14_StatisticsUseConcreteValuesOnly ==
  statsOut # Undefined =>
    /\ IsTotal(statsOut.stats.totalValue, statsIn, "price")
    /\ IsMean(statsOut.stats.averageChange, statsIn, "changePercentage")
    /\ IsTotal(statsOut.stats.totalVolume, statsIn, "volume")
    /\ IsTotal(statsOut.stats.totalMarketCap, statsIn, "marketCap")
    /\ statsIn = <<>> =>
         /\ statsOut.stats.totalValue = NotAvailable
         /\ statsOut.stats.averageChange = NotAvailable
         /\ statsOut.stats.totalVolume = NotAvailable
         /\ statsOut.stats.totalMarketCap = NotAvailable
         /\ statsOut.stats.bestPerformer = Null
         /\ statsOut.stats.worstPerformer = Null
    /\ statsOut.metrics = statsOut.stats

\* of three quotes the first has no price and none has a volume: the total
\* value is the sum of the two other prices, the volume is not available,
\* and the mean of the three changes is not a whole number of hundredths
C14_Witness ==
  /\ statsOut # Undefined
  /\ Len(statsIn) = 3
  /\ Concrete(statsIn, "price") = {2, 3}
  /\ statsOut.stats.totalValue = Num(statsIn[2].price.n + statsIn[3].price.n)
  /\ statsOut.stats.totalVolume = NotAvailable
  /\ Concrete(statsIn, "changePercentage") = {1, 2, 3}
  /\ statsOut.stats.averageChange.n * 3 # SumAt(statsIn, "changePercentage", {1, 2, 3})

\* the first position whose change is the greatest (the least) of the
\* changes that are numbers
FirstMax(data) ==
  LET S == Concrete(data, "changePercentage")
      M == {k \in S : \A j \in S : data[j].changePercentage.n <= data[k].changePercentage.n}
  IN CHOOSE k \in M : \A j \in M : k <= j
FirstMin(data) ==
  LET S == Concrete(data, "changePercentage")
      M == {k \in S : \A j \in S : data[j].changePercentage.n >= data[k].changePercentage.n}
  IN CHOOSE k \in M : \A j \in M : k <= j

\* best and worst are the performers the claim names
PerformersOf(out, data) ==
  IF Concrete(data, "changePercentage") = {}
  THEN out.bestPerformer = Null /\ out.worstPerformer = Null
  ELSE /\ out.bestPerformer = data[FirstMax(data)]
       /\ out.worstPerformer = data[FirstMin(data)]
       /\ IsNumber(out.bestPerformer.changePercentage)
       /\ IsNumber(out.worstPerformer.changePercentage)
       /\ Cardinality(Concrete(data, "changePercentage")) = 1 =>
            out.bestPerformer = out.worstPerformer

\* C15: when a quote has a number for changePercentage, bestPerformer is the
\* first quote of the list whose change is the greatest and worstPerformer
\* the first whose change is the least, among the quotes whose change is a
\* number; a quote without one is never chosen; a single quote with one is
\* both; when no quote has one, both are null.
C15_PerformersAreFirstExtremes ==
  statsOut # Undefined =>
    /\ PerformersOf(statsOut.stats, statsIn)
    /\ PerformersOf(statsOut.metrics, statsIn)

\* the first quote has no change and the two after it have the same one,
\* the greatest: the best performer is the second quote
C15_Witness ==
  /\ statsOut # Undefined
  /\ Len(statsIn) = 3
  /\ statsIn[1].changePercentage = NotAvailable
  /\ statsIn[2].changePercentage = Num(150)
  /\ statsIn[3].changePercentage = Num(150)
  /\ statsOut.stats.bestPerformer = statsIn[2]
  /\ statsOut.metrics.bestPerformer = statsIn[2]

(***************************************************************************)
(* Claims about normalizeTicker, under SpecTicker                          *)
(***************************************************************************)
\* four characters that are capital letters or digits, then one or two digits
IsBrazilianShape(t) ==
  \E d \in 1..2 :
    /\ Len(t) = 4 + d
    /\ \A k \in 1..Len(t) :
         \/ t[k] \in 48..57
         \/ k <= 4 /\ t[k] \in 65..90

\* C16: a ticker of four alphanumeric characters followed by one or two
\* digits gets ".SA" appended, once; and for every ticker, normalizing the
\* normalized ticker changes nothing.
C16_SuffixOnceAndIdempotent ==
  tickerOut # Undefined =>
    /\ IsBrazilianShape(tickerIn) => tickerOut.once = tickerIn \o <<46, 83, 65>>
    /\ tickerOut.twice = tickerOut.once

\* "AAAA3" became "AAAA3.SA" and stayed so
C16_Witness ==
  /\ tickerIn = <<65, 65, 65, 65, 51>>
  /\ tickerOut # Undefined
  /\ tickerOut.once = <<65, 65, 65, 65, 51, 46, 83, 65>>
  /\ tickerOut.twice = tickerOut.once

(***************************************************************************)
(* Claims about fetchTickerData, under SpecFetch                           *)
(***************************************************************************)
\* the symbol the claim expects the provider to be asked for
ExpectedSymbol(t) == IF IsBrazilianShape(t) THEN t \o <<46, 83, 65>> ELSE t

\* the positions of the log that hold a request, an answer
RequestsAt == {k \in 1..Len(log) : log[k].ev = "request"}
AnswersAt == {k \in 1..Len(log) : log[k].ev = "answer"}

\* C17: every request to the provider, first attempt or retry, asks for the
\* normalized symbol of the ticker, and the quote fetchTickerData returns is
\* named after the ticker it was called with, whatever symbol the provider
\* put in its answer.
C17_AsksNormalizedKeepsOriginal ==
  /\ \A k \in RequestsAt : log[k].symbol = ExpectedSymbol(tickers[1])
  /\ call.phase = "inflight" => call.symbol = ExpectedSymbol(tickers[1])
  /\ (call.phase = "done" /\ call.result # Null) => call.result.ticker = tickers[1]

\* the call for VALE3 asked for VALE3.SA twice and returned a quote named
\* VALE3 from an answer that carries another symbol
C17_Witness ==
  /\ tickers = <<VALE3>>
  /\ Cardinality(RequestsAt) = 2
  /\ \A k \in RequestsAt : log[k].symbol = <<86, 65, 76, 69, 51, 46, 83, 65>>
  /\ call.phase = "done" /\ call.result # Null
  /\ log[Len(log)].answer.body.items[1].symbol = MSFT
  /\ call.result.ticker = VALE3

\* the failures the claim calls transient: a timeout, a network error, a
\* status that is not ok and is not 404
ListedTransient(a) ==
  \/ a.kind \in {"aborted", "rejects"}
  \/ a.kind = "response" /\ a.status \notin 200..299 /\ a.status # 404

\* a response that is ok whose body cannot be read as the provider's array:
\* it is not JSON, has no bytes, or is an object that is no array
UnreadableBody(a) ==
  /\ a.kind = "response"
  /\ a.status \in 200..299
  /\ a.body.kind \in {"unparsable", "nobody", "object"}

\* The provider is asked at most 3 times; every request but the first comes
\* after a wait that follows an answer Transient admits, of 1000 ms before
\* the second request and 2000 ms before the third; no wait follows any other
\* answer; the call has returned once the third request is answered, with
\* null when that answer is a failure; nothing follows the return.
RetryDiscipline(Transient(_)) ==
  /\ Cardinality(RequestsAt) <= 3
  /\ \A k \in RequestsAt : k > 1 =>
       /\ log[k - 1].ev = "wait"
       /\ log[k - 1].delay =
            (IF Cardinality({r \in RequestsAt : r < k}) = 1 THEN 1000 ELSE 2000)
  /\ \A k \in 1..Len(log) : log[k].ev = "wait" =>
       /\ log[k - 1].ev = "answer"
       /\ Transient(log[k - 1].answer)
  /\ (Cardinality(RequestsAt) = 3 /\ log[Len(log)].ev = "answer") =>
       /\ call.phase = "done"
       /\ Transient(log[Len(log)].answer) => call = Done(Null)
  /\ call.phase = "done" => log[Len(log)].ev = "answer"

RetriedFailure(a) == ListedTransient(a) \/ UnreadableBody(a)

C19_NotFoundIsPermanent ==
  \A k \in AnswersAt :
    (log[k].answer.kind = "response" /\ log[k].answer.status = 404) =>
      /\ k = Len(log)
      /\ call = Done(Null)

\* the third request was answered 404 and the call returned null
C19_Witness ==
  /\ Cardinality(RequestsAt) = 3
  /\ log[Len(log)].ev = "answer"
  /\ log[Len(log)].answer = FxResponse(404, Null)
  /\ call = Done(Null)

\* a response that is ok with an empty or missing body: [], null, no bytes
EmptyOrMissingBody(a) ==
  /\ a.kind = "response"
  /\ a.status \in 200..299
  /\ (a.body = JsArray(<<>>) \/ a.body = Null \/ a.body = NoBody)

\* C20: a response that is ok with an empty array, null or no body at all
\* ends the call at once with null, without a retry.  For [] and null line
\* 129 returns null; a body of no bytes makes response.json() throw at line
\* 127, and the catch retries as after any error that is not a 404.
C20_EmptyBodyIsNotRetried ==
  \A k \in AnswersAt :
    EmptyOrMissingBody(log[k].answer) =>
      /\ k = Len(log)
      /\ call = Done(Null)

(***************************************************************************)
(* Claims about the windows of fetchMultipleTickersData, under SpecBatch   *)
(***************************************************************************)
\* the window of the j-th ticker, counted from 0
WindowOf(j) == (j - 1) \div batchSize

\* C21: the tickers are processed in consecutive windows of batchSize: while
\* a call of a window has not returned (it is in flight, or waits for a
\* retry), no call of a later window has been issued; a call that has been
\* issued finds every call of the earlier windows returned.
C21_WindowsRunOneAfterAnother ==
  \A j, k \in Calls :
    (WindowOf(k) < WindowOf(j) /\ fetch[j].phase # "pending") =>
      fetch[k].phase = "done"

\* a call of the first window waits for its last retry, its siblings have
\* returned, and the calls of the second window are not issued
C21_Witness ==
  /\ Len(batchArg) > batchSize
  /\ fetch[1].phase = "backoff"
  /\ fetch[1].retryCount = maxRetries - 1
  /\ \A k \in 2..batchSize : fetch[k].phase = "done"
  /\ \A j \in Calls : WindowOf(j) > 0 => fetch[j].phase = "pending"

(***************************************************************************)
(* Claims about the order of execute's calls, under Spec                   *)
(***************************************************************************)
QuoteCallsInFlight == {j \in Calls : fetch[j].phase = "inflight"}

\* C22, as claimed: on a cache miss the batch does not wait for the
\* exchange-rate call: while that call is in flight, the quote calls of the
\* first window have been issued.
C22_BatchDoesNotWaitForTheRate ==
  (pc = "fx" /\ LengthIsZero(portfolioData)) =>
    /\ quoteCalled
    /\ fpc = "running"

\* C22, amended: on a cache miss the exchange-rate call and the batch run one
\* after the other.  While the exchange-rate call is in flight no quote call
\* has been issued, and the batch is started only when the exchange-rate
\* call, the one call of the request, has given its number.
C22_BatchStartsAfterTheRate ==
  /\ pc = "fx" =>
       /\ ~quoteCalled
       /\ fpc = "idle"
       /\ QuoteCallsInFlight = {}
  /\ (quoteCalled \/ fpc # "idle") =>
       /\ pc # "fx"
       /\ fxCalls = 1
       /\ IsNumber(exchangeRate)

\* the cache held nothing, the rate is there and the quote calls of the
\* request are in flight
C22_Witness ==
  /\ pc = "batch"
  /\ cacheRead = "absent"
  /\ IsNumber(exchangeRate)
  /\ Cardinality(QuoteCallsInFlight) = Len(normalizedTickers)

(***************************************************************************)
(* Claims about the cache write, under Spec                                *)
(***************************************************************************)
\* what the claim expects execute to hand to the backend: the request's key,
\* five minutes, and the entry with the orchestrator's result
ExpectedWrite ==
  [key |-> generateCacheKey(normalizedTickers),
   seconds |-> 5 * 60,
   value |-> StoredEntry(normalizedTickers, JsArray(results))]

\* C23, as claimed: on every cache miss, once the batch has settled, execute
\* has issued one write of the orchestrator's result.
C23_EveryMissIsStored ==
  fpc = "returned" => setExCalls = <<ExpectedWrite>>

\* C23, amended: on a cache miss whose batch returned at least one quote,
\* execute issues, in the step in which the batch settles and before the
\* response is composed, one write of the orchestrator's result under the
\* request's key with an expiry of 300 seconds, and the backend that accepts
\* it holds that entry until 300 seconds later; after a batch without a
\* quote, and while the batch has not settled, there is no write.
C23_MissWithQuotesIsStoredOnce ==
  /\ fpc # "returned" => setExCalls = <<>>
  /\ (fpc = "returned" /\ Len(results) = 0) => setExCalls = <<>>
  /\ (fpc = "returned" /\ Len(results) > 0) => setExCalls = <<ExpectedWrite>>
  /\ pc = "cacheSet" => (setExCalls # <<>> /\ doc = NoDoc)
  /\ cacheSetResult # "none" => (setExCalls # <<>> /\ pc # "cacheSet")
  /\ cacheSetResult = "ok" =>
       /\ cache[cacheKey] = ExpectedWrite.value
       /\ expiry[cacheKey] = now + 5 * 60

\* the backend held a text that is no JSON, one of two tickers failed, and
\* the one quote was written over the text with its expiry
C23_Witness ==
  /\ pc = "done"
  /\ cacheRead = "malformed"
  /\ Len(normalizedTickers) = 2
  /\ Len(results) = 1
  /\ cacheSetResult = "ok"
  /\ setExCalls = <<ExpectedWrite>>
  /\ cache[cacheKey].value.data = JsArray(results)
  /\ expiry[cacheKey] = now + cacheTtlSeconds

(***************************************************************************)
(* Claims about the life of a cache entry, under SpecCache                 *)
(***************************************************************************)
\* a step of execute: every step but the one of the backend's clock
CoreStep == now' = now

\* C24: a step of execute never removes a key from the cache; a step of a
\* call whose read was a hit, that read included, changes neither a payload
\* nor an expiry; the expiry of a key changes only when the write of a miss
\* is accepted, to 300 seconds after that write; and a read is a hit only
\* before the expiry of the entry, however many reads it had.
C24_HitLeavesTheCacheAsItIs ==
  [][/\ CoreStep => DOMAIN cache \subseteq DOMAIN cache'
     /\ (CoreStep /\ callNo' = callNo /\ cacheRead' = "entry") =>
          (cache' = cache /\ expiry' = expiry /\ setExCalls' = <<>>)
     /\ CoreStep =>
          \A k \in DOMAIN expiry :
            expiry'[k] # expiry[k] =>
              /\ pc = "cacheSet"
              /\ cacheRead # "entry"
              /\ k = cacheKey
              /\ expiry'[k] = now + 5 * 60
     /\ (cacheRead # "entry" /\ cacheRead' = "entry") =>
          /\ cacheKey \in DOMAIN cache
          /\ now < expiry[cacheKey]
          /\ reads'[cacheKey] = reads[cacheKey] + 1]_vars

\* the third call has returned the quotes of an entry that was written by the
\* first call, served to the second, and whose expiry is still the one of
\* its write
C24_Witness ==
  /\ pc = "done"
  /\ callNo = 3
  /\ cacheRead = "entry"
  /\ doc.stocksFound = 1
  /\ reads[cacheKey] = 2
  /\ now = TickSeconds
  /\ expiry[cacheKey] = cacheTtlSeconds

(***************************************************************************)
(* Claims about termination, under SpecLive                                *)
(***************************************************************************)
\* C25: every call of execute that has begun returns a document at last,
\* also when the exchange-rate provider sends no answer.  The await of line
\* 351 has no bound: with a provider that sends nothing execute stays there
\* for ever.
C25_ExecuteAlwaysReturns ==
  (pc = "cacheGet") ~> (pc = "done" /\ doc.kind = "document")

(***************************************************************************)
(* Claims about whose quotes a request gets, under SpecCache               *)
(***************************************************************************)
\* C26: every quote of a document that execute returns, fetched or served
\* from an entry that an earlier request wrote, has the ticker of one of the
\* request's trimmed, upper-cased tickers.  The key joins the sorted tickers
\* with commas: the requests ["A,B"] and ["A", "B"] have the same key, and
\* the second is served the quote that the first stored under "A,B".
C26_QuotesAreOfTheRequestedTickers ==
  (pc = "done" /\ doc.success) =>
    \A k \in 1..Len(doc.stocks) :
      doc.stocks[k].ticker \in SetOf(NormalizeInput(tickers))

(***************************************************************************)
(* Claims about the order of the quotes, under SpecBatch                   *)
(***************************************************************************)
\* s can be got from t by leaving elements of t out
RECURSIVE IsSubsequence(_, _)
IsSubsequence(s, t) ==
  IF s = <<>> THEN TRUE
  ELSE IF t = <<>> THEN FALSE
  ELSE IF Head(s) = Head(t) THEN IsSubsequence(Tail(s), Tail(t))
  ELSE IsSubsequence(s, Tail(t))

\* C27: the tickers of the quotes that fetchMultipleTickersData has kept, and
\* of those it returns, are a subsequence of the tickers it was given, in
\* whatever order the calls of a window ended and whatever their retries.
C27_QuotesFollowTheRequestOrder ==
  fpc \in {"running", "returned"} =>
    /\ IsSubsequence(TickersOf(results), batchArg)
    /\ Len(results) <= Len(batchArg)

\* six tickers in two windows; the first and the fourth failed, and the
\* quotes returned are those of the second, third, fifth and sixth ticker
C27_Witness ==
  /\ fpc = "returned"
  /\ Len(batchArg) = batchSize + 1
  /\ fetch[1].result = Null
  /\ fetch[4].result = Null
  /\ TickersOf(results) = <<batchArg[2], batchArg[3], batchArg[5], batchArg[6]>>

=============================================================================
